---- MODULE Spec2Model ----
(***************************************************************************)
(* Layout and interaction of the bdedit graphics items                     *)
(* (bdsim/bdedit/block_graphics_block.py): GraphicsBlock, the graphics     *)
(* item of an ordinary Block, and GraphicsSocketBlock, the graphics item   *)
(* of a Connector Block.                                                   *)
(*                                                                         *)
(* Coordinates are integers.  Every length the source sets (edge_size,     *)
(* title_height, _padding, the grid step and the border padding) is        *)
(* integer valued, so the float arithmetic of the source is exact on the   *)
(* values modelled here.                                                   *)
(***************************************************************************)
EXTENDS Integers, Sequences, FiniteSets, TLC

VARIABLES
    sceneRect,       \* self.scene().sceneRect(): [x, y, width, height]
    width,           \* grBlock.width, per entity
    default_width,   \* grBlock._default_width, per entity
    default_height,  \* grBlock._default_height, per entity
    block_height,    \* block.height, per entity
    height,          \* grBlock.height, per entity
    inputs,          \* block.inputs: sequence of socket y offsets, per entity
    outputs,         \* block.outputs: sequence of socket y offsets, per entity
    pos,             \* grBlock.pos(): <<x, y>>, per entity
    selected,        \* grBlock.isSelected(), per entity
    draw_title,      \* grBlock._draw_title, per entity
    title_pos,       \* title_item.pos(), per entity: [x2, y], x2 twice the x
    wireEnd,         \* endpoint of the wire bound to the entity's first socket
    blocks,          \* self.block.scene.blocks: the entities constructed
    scope,           \* the arguments and outcome of the last Scope(...)
    front,           \* the entity setFocusOfBlocks() brought to the front
    mode,            \* grBlock.mode, per entity
    style,           \* _title_color, _pen_default, _brush_background, per entity
    event,           \* the event handled last and the calls it made
    events           \* the number of events handled so far

vars == <<sceneRect, width, default_height, block_height, height, inputs,
          outputs, pos, selected, draw_title, title_pos, wireEnd, blocks,
          front, mode, style, event, events, scope, default_width>>

modeVars == <<mode, style>>

----------------------------------------------------------------------------
(* The scene: two ordinary Blocks and one Connector Block.                 *)

Blocks == {"b1", "b2"}
Connectors == {"k1"}
Entities == Blocks \cup Connectors

IsBlock(e) == e \in Blocks

(* block.width of a Block at construction (the comment of titleLength      *)
(* names the 100 pixels) and block.width = block.height of a Connector.    *)
BlockWidths == {100}
ConnectorSizes == {20}

(* block.height of a Block at construction.                                *)
DefaultHeights == {80, 100}

(* The y offsets getSocketPosition() can report for a socket.              *)
SocketYs == {40, 200}

(* Longest socket list of one side of a Block.                             *)
MaxSockets == 2

(* Longest session: the number of events the event loop dispatches.        *)
MaxEvents == 5

(* The scene rectangle a diagram opens with, and the ones it can be given  *)
(* later: one whose origin is off the grid, and one too small to hold a    *)
(* Block between its borders.                                              *)
FirstSceneRect == [x |-> 0, y |-> 0, width |-> 1000, height |-> 600]

SceneRects ==
    { FirstSceneRect,
      [x |-> -15, y |-> 5, width |-> 1000, height |-> 590],
      [x |-> 0,   y |-> 0, width |-> 120,  height |-> 100] }

(* The positions super().mouseMoveEvent(event) can leave the dragged item  *)
(* at, before the handler snaps and clamps it.                             *)
RawTargets == { <<997, 3>>, <<-30, 590>>, <<30, 50>> }

----------------------------------------------------------------------------
(* Spacings set by the constructors.                                       *)

edge_size(e) == IF IsBlock(e) THEN 10 ELSE 0
title_height(e) == IF IsBlock(e) THEN 25 ELSE 0
padding_(e) == IF IsBlock(e) THEN 5 ELSE 0

(* The size of the smaller grid squares, and the border kept to the edge   *)
(* of the work area.                                                       *)
GridSize == 20
BorderPadding == 20

(* The colour mode the scene has when a Block is constructed (the other    *)
(* modes are reached through updateMode), and the values updateMode can    *)
(* be called with.                                                         *)
SceneModes == {"Light"}
ModeValues == {"Light", "Dark", "Off", "Purple"}

(* The mouse buttons of a press.                                           *)
Buttons == {"left", "right"}

(* The pixel widths QFontMetrics can measure for a title.                  *)
TitlePixelLens == {37, 38}

(* Python's max() of two numbers.                                          *)
Max(a, b) == IF a > b THEN a ELSE b

(* Rounding v / g with halves always taken upward.                         *)
RoundDiv_halfUp(v, g) == (2 * v + g) \div (2 * g)

(* Python's round(v / 20) for an integer v: the nearest integer, and the   *)
(* even one of the two when v / 20 lies halfway between them.              *)
RoundDiv(v, g) ==
    LET q == v \div g
        r == v % g
    IN  IF 2 * r < g THEN q
        ELSE IF 2 * r > g THEN q + 1
        ELSE IF q % 2 = 0 THEN q ELSE q + 1

----------------------------------------------------------------------------
(* GraphicsBlock.checkBlockHeight                                          *)

socket_spacer(e) == padding_(e) + edge_size(e) + title_height(e)

(* The y of the last socket of a list, 0 of [0, 0] when the list is empty. *)
LastSocketY(sockets) ==
    IF sockets # <<>> THEN sockets[Len(sockets)] ELSE 0

(* checkBlockHeight reading the input sockets alone.                       *)
checkBlockHeight_inputsOnly(e) ==
    LET max_block_height == LastSocketY(inputs[e]) + socket_spacer(e)
    IN  IF max_block_height > default_height[e]
        THEN max_block_height
        ELSE default_height[e]

(* checkBlockHeight comparing with the current height, not the default.    *)
checkBlockHeight_currentHeight(e) ==
    LET max_block_height ==
            Max(LastSocketY(inputs[e]), LastSocketY(outputs[e]))
                + socket_spacer(e)
    IN  IF max_block_height > height[e]
        THEN max_block_height
        ELSE default_height[e]

(* The height checkBlockHeight gives the Block and its graphics item.      *)
checkBlockHeight(e) ==
    LET last_input == LastSocketY(inputs[e])
        last_output == LastSocketY(outputs[e])
        max_input_socket_height == last_input + socket_spacer(e)
        max_output_socket_height == last_output + socket_spacer(e)
        max_block_height ==
            Max(max_input_socket_height, max_output_socket_height)
    IN  IF max_block_height > default_height[e]
        THEN max_block_height
        ELSE default_height[e]

----------------------------------------------------------------------------
(* GraphicsBlock.titleLength and GraphicsBlock.setTitle                    *)

titleLength(measured) ==
    IF measured % 2 # 0 THEN measured + 1 ELSE measured

(* The position setTitle gives the title item, for the height h the item   *)
(* has by then.  x2 is twice the x coordinate, which the source divides    *)
(* by 2 as a float.                                                        *)
setTitlePos(e, h, measured) ==
    [x2 |-> width[e] - padding_(e) - titleLength(measured),
     y  |-> h + padding_(e)]

----------------------------------------------------------------------------
(* GraphicsBlock.checkMode and GraphicsBlock.updateMode                    *)

(* The title colour, default pen and background brush checkMode sets for   *)
(* mode m.                                                                 *)
checkMode(m) ==
    IF m = "Dark"
    THEN [title_color |-> "white", pen_default |-> "white",
          brush_background |-> "white"]
    ELSE [title_color |-> "black", pen_default |-> "#7F000000",
          brush_background |-> "#FFE1E0E8"]

(* updateMode storing the value before it tests it.                        *)
updateMode_storesFirst(m, st, value) ==
    IF value \in {"Light", "Dark", "Off"}
    THEN [mode |-> value, style |-> checkMode(value),
          outcome |-> "returns", printed |-> ""]
    ELSE [mode |-> value, style |-> st,
          outcome |-> "returns", printed |-> "Block mode not supported."]

(* updateMode raising on a value it does not support.                      *)
updateMode_raises(m, st, value) ==
    IF value \in {"Light", "Dark", "Off"}
    THEN [mode |-> value, style |-> checkMode(value),
          outcome |-> "returns", printed |-> ""]
    ELSE [mode |-> m, style |-> st,
          outcome |-> "raises", printed |-> ""]

(* updateMode(value) on a Block of mode m and colours st: the mode and     *)
(* colours it leaves, how the call ends and what it prints.                *)
updateMode(m, st, value) ==
    IF value \in {"Light", "Dark", "Off"}
    THEN [mode |-> value, style |-> checkMode(value),
          outcome |-> "returns", printed |-> ""]
    ELSE [mode |-> m, style |-> st,
          outcome |-> "returns", printed |-> "Block mode not supported."]

----------------------------------------------------------------------------
(* boundingRect of the two graphics classes.  A rectangle is kept in       *)
(* half pixels, [x2, y2, w2, h2], since _internal_padding is 2.5.          *)

internal_padding_x2 == 5

(* QRectF.normalized(): a negative width or height is turned around.       *)
normalized(r) ==
    [x2 |-> IF r.w2 < 0 THEN r.x2 + r.w2 ELSE r.x2,
     y2 |-> IF r.h2 < 0 THEN r.y2 + r.h2 ELSE r.y2,
     w2 |-> IF r.w2 < 0 THEN 0 - r.w2 ELSE r.w2,
     h2 |-> IF r.h2 < 0 THEN 0 - r.h2 ELSE r.h2]

(* GraphicsBlock.boundingRect for self.width w and self.height h.          *)
BlockBoundingRect(w, h) ==
    [x2 |-> 0, y2 |-> 0, w2 |-> 2 * w, h2 |-> 2 * h]

(* The larger selection area the source keeps in a comment.                *)
SocketBoundingRect_larger(w, h) ==
    LET W2 == 2 * w
        P2 == internal_padding_x2
    IN  normalized([x2 |-> 2 - (3 * w) - P2, y2 |-> 2 - (3 * w) - P2,
                    w2 |-> 4 * W2 + P2, h2 |-> 3 * W2 + P2])

(* GraphicsSocketBlock.boundingRect for self.width w.                      *)
SocketBoundingRect(w, h) ==
    LET W2 == 2 * w
        P2 == internal_padding_x2
    IN  normalized([x2 |-> 2 - W2 - P2, y2 |-> 2 - W2 - P2,
                    w2 |-> 3 * W2 + P2, h2 |-> 2 * W2 + P2])

boundingRect(e) ==
    IF IsBlock(e)
    THEN BlockBoundingRect(width[e], height[e])
    ELSE SocketBoundingRect(width[e], height[e])

----------------------------------------------------------------------------
(* mousePressEvent of the two graphics classes.                            *)

(* GraphicsBlock.mousePressEvent toggling on any button.                   *)
BlockMousePress_anyButton(sel, button) ==
    [focus |-> TRUE, toggle |-> sel, super |-> TRUE]

(* GraphicsBlock.mousePressEvent for an item whose isSelected() is sel:    *)
(* whether setFocusOfBlocks() is called, whether toggleParamWindow() is    *)
(* called, and whether the event goes on to super().mousePressEvent.       *)
BlockMousePress(sel, button) ==
    [focus |-> TRUE, toggle |-> (button = "right" /\ sel), super |-> TRUE]

(* GraphicsSocketBlock.mousePressEvent: setFocusOfBlocks() alone.          *)
SocketMousePress(sel, button) ==
    [focus |-> TRUE, toggle |-> FALSE, super |-> FALSE]

(* The selection flags after super().mousePressEvent(event) on item e:     *)
(* a left press without Ctrl on an unselected item clears the selection    *)
(* and selects the item; any other press leaves the flags.                 *)
superMousePress(e, button, ctrl) ==
    IF button = "left" /\ ~ctrl /\ ~selected[e]
    THEN [x \in Entities |-> x = e]
    ELSE selected

----------------------------------------------------------------------------
(* GraphicsBlock.mouseMoveEvent: the grid snap and the four border checks. *)

(* pos after setPos(QPointF(x, y)) with x, y rounded to the grid.          *)
BlockSnap(raw) ==
    <<RoundDiv(raw[1], GridSize) * GridSize,
      RoundDiv(raw[2], GridSize) * GridSize>>

(* The border checks with the right and bottom ones run first, so that     *)
(* the left and top limits win.                                            *)
BlockClamp_rightFirst(p, rect, w, h, th) ==
    LET padding == BorderPadding
        right ==
            IF p[1] > rect.x + rect.width - w - padding
            THEN <<rect.x + rect.width - w - padding, p[2]>> ELSE p
        bottom ==
            IF right[2] > rect.y + rect.height - h - th - padding
            THEN <<right[1], rect.y + rect.height - h - th - padding>>
            ELSE right
        left ==
            IF bottom[1] < rect.x + padding
            THEN <<rect.x + padding, bottom[2]>> ELSE bottom
        top ==
            IF left[2] < rect.y + padding
            THEN <<left[1], rect.y + padding>> ELSE left
    IN  top

(* The border checks without the title band below the Block.               *)
BlockClamp_noTitle(p, rect, w, h, th) ==
    LET padding == BorderPadding
        left ==
            IF p[1] < rect.x + padding
            THEN <<rect.x + padding, p[2]>> ELSE p
        top ==
            IF left[2] < rect.y + padding
            THEN <<left[1], rect.y + padding>> ELSE left
        right ==
            IF top[1] > rect.x + rect.width - w - padding
            THEN <<rect.x + rect.width - w - padding, top[2]>> ELSE top
        bottom ==
            IF right[2] > rect.y + rect.height - h - padding
            THEN <<right[1], rect.y + rect.height - h - padding>>
            ELSE right
    IN  bottom

(* pos after the left, top, right and bottom checks, each reading the      *)
(* position the one before it left.  w, h and th are self.width,           *)
(* self.height and self.title_height.                                      *)
BlockClamp(p, rect, w, h, th) ==
    LET padding == BorderPadding
        left ==
            IF p[1] < rect.x + padding
            THEN <<rect.x + padding, p[2]>> ELSE p
        top ==
            IF left[2] < rect.y + padding
            THEN <<left[1], rect.y + padding>> ELSE left
        right ==
            IF top[1] > rect.x + rect.width - w - padding
            THEN <<rect.x + rect.width - w - padding, top[2]>> ELSE top
        bottom ==
            IF right[2] > rect.y + rect.height - h - th - padding
            THEN <<right[1], rect.y + rect.height - h - th - padding>>
            ELSE right
    IN  bottom

----------------------------------------------------------------------------
(* GraphicsSocketBlock.mouseMoveEvent: the same steps, written again in    *)
(* the Connector's graphics class.                                         *)

SocketSnap(raw) ==
    <<RoundDiv(raw[1], GridSize) * GridSize,
      RoundDiv(raw[2], GridSize) * GridSize>>

(* The border checks of a Connector keeping the title band of a Block.     *)
SocketClamp_titleBand(p, rect, w, h, th) ==
    BlockClamp(p, rect, w, h, 25)

SocketClamp(p, rect, w, h, th) ==
    LET padding == BorderPadding
        left ==
            IF p[1] < rect.x + padding
            THEN <<rect.x + padding, p[2]>> ELSE p
        top ==
            IF left[2] < rect.y + padding
            THEN <<left[1], rect.y + padding>> ELSE left
        right ==
            IF top[1] > rect.x + rect.width - w - padding
            THEN <<rect.x + rect.width - w - padding, top[2]>> ELSE top
        bottom ==
            IF right[2] > rect.y + rect.height - h - th - padding
            THEN <<right[1], rect.y + rect.height - h - th - padding>>
            ELSE right
    IN  bottom

(* The two positions of a move: the one the snap sets and the one the     *)
(* border checks leave.                                                    *)
BlockMove_clampFirst(raw, rect, w, h, th) ==
    [snapped |-> BlockSnap(raw),
     final   |-> BlockSnap(BlockClamp(raw, rect, w, h, th))]

BlockMove(raw, rect, w, h, th) ==
    [snapped |-> BlockSnap(raw),
     final   |-> BlockClamp(BlockSnap(raw), rect, w, h, th)]

SocketMove(raw, rect, w, h, th) ==
    [snapped |-> SocketSnap(raw),
     final   |-> SocketClamp(SocketSnap(raw), rect, w, h, th)]

(* The move of the graphics class of entity e, on its own dimensions.      *)
Move(e, raw) ==
    IF IsBlock(e)
    THEN BlockMove(raw, sceneRect, width[e], height[e], title_height(e))
    ELSE SocketMove(raw, sceneRect, width[e], height[e], title_height(e))

(* The entities the final loop of mouseMoveEvent calls                     *)
(* updateConnectedEdges() on: those of scene.blocks that are selected.     *)
BlockUpdated_all == blocks

BlockUpdated == {x \in blocks : selected[x]}

SocketUpdated == {x \in blocks : selected[x]}

Updated(e) == IF IsBlock(e) THEN BlockUpdated ELSE SocketUpdated

----------------------------------------------------------------------------
(* Wire endpoints.  Each entity has a wire bound to its first socket,      *)
(* which lies socket_spacer below the top of the entity.                   *)

PortOffset(e) == <<0, socket_spacer(e)>>

(* block.updateConnectedEdges(): the endpoint is the port's relative       *)
(* offset plus the position p of the owning entity.                        *)
updateConnectedEdges(e, p) ==
    <<p[1] + PortOffset(e)[1], p[2] + PortOffset(e)[2]>>

(* The final loop of mouseMoveEvent run at the snapped position.           *)
resync_snapped(e, moved, upd) ==
    [x \in Entities |->
        IF x \in upd
        THEN updateConnectedEdges(x, IF x = e THEN moved.snapped ELSE pos[x])
        ELSE wireEnd[x]]

(* The final loop of mouseMoveEvent of entity e, which runs after the two  *)
(* setPos calls: the wire endpoints once every entity of upd has had       *)
(* updateConnectedEdges() called at the position it then has, which for e  *)
(* is moved.final.                                                         *)
resync(e, moved, upd) ==
    [x \in Entities |->
        IF x \in upd
        THEN updateConnectedEdges(x, IF x = e THEN moved.final ELSE pos[x])
        ELSE wireEnd[x]]

----------------------------------------------------------------------------
(* blocks/displays.py: the constructor of the Scope block.                 *)
(*                                                                         *)
(* An optional int argument is [some, val].  A str-or-list argument is     *)
(* [kind, str, list] with kind "none", "str" or "list": a string is the    *)
(* sequence of its characters, a list the sequence of its strings.  The    *)
(* vector argument is [kind, n, idx] with kind "none", "int" or "list".    *)

NoneInt == [some |-> FALSE, val |-> 0]
SomeInt(n) == [some |-> TRUE, val |-> n]
NoneArg == [kind |-> "none", str |-> <<>>, list |-> <<>>]
StrArg(chars) == [kind |-> "str", str |-> chars, list |-> <<>>]
ListArg(strs) == [kind |-> "list", str |-> <<>>, list |-> strs]
NoneVector == [kind |-> "none", n |-> 0, idx |-> <<>>]
IntVector(n) == [kind |-> "int", n |-> n, idx |-> <<>>]
ListVector(idx) == [kind |-> "list", n |-> 0, idx |-> idx]

(* The arguments Scope is constructed with.                                *)
NinArgs == {NoneInt, SomeInt(1), SomeInt(2), SomeInt(3)}
VectorArgs == {NoneVector, IntVector(1), IntVector(2), ListVector(<<0, 1>>)}
StylesArgs ==
    {NoneArg, StrArg(<<"k", "-", "-">>), StrArg(<<"r">>),
     ListArg(<< <<"k", "-", "-">> >>),
     ListArg(<< <<"k">>, <<"r", "-", "-">> >>)}
LabelsArgs ==
    {NoneArg, StrArg(<<"x", "1">>), ListArg(<< <<"x", "1">> >>),
     ListArg(<< <<"x">>, <<"y">> >>)}

(* Python's len() of a str or of a list.                                   *)
len(a) == IF a.kind = "str" THEN Len(a.str) ELSE Len(a.list)

(* listify(s) of Scope.__init__: a str becomes a list holding it.          *)
listify(a) == IF a.kind = "str" THEN <<a.str>> ELSE a.list

(* Scope.__init__ up to self.nplots: the exception it ends in, or the      *)
(* nin and nplots it settles on and the lists it stores.                   *)
Scope_init(nin, vector, styles, labels) ==
    LET np0 == nin
        stylesAssert ==
            styles.kind # "none" /\ np0.some /\ np0.val # len(styles)
        np1 == IF styles.kind # "none" /\ ~np0.some
               THEN SomeInt(len(styles)) ELSE np0
        labelsAssert ==
            labels.kind # "none" /\ np1.some /\ np1.val # len(labels)
        np2 == IF labels.kind # "none" /\ ~np1.some
               THEN SomeInt(len(labels)) ELSE np1
        ninNotOne == vector.kind # "none" /\ nin.some /\ nin.val # 1
        nvec == IF vector.kind = "int" THEN vector.n ELSE Len(vector.idx)
        mismatch == vector.kind # "none" /\ np2.some /\ nvec # np2.val
        np3 == IF vector.kind # "none" /\ ~np2.some THEN SomeInt(nvec) ELSE np2
        np4 == IF np3.some THEN np3.val ELSE 1
        raised(exc, msg) ==
            [outcome |-> exc, message |-> msg, nin |-> 0, nplots |-> 0,
             styles |-> <<>>, labels |-> <<>>]
    IN  IF stylesAssert
        THEN raised("AssertionError", "need one style per input")
        ELSE IF labelsAssert
        THEN raised("AssertionError", "need one label per input")
        ELSE IF ninNotOne
        THEN raised("ValueError", "if vector is given, nin must be 1")
        ELSE IF mismatch
        THEN raised("ValueError", "vector argument doesnt match nplots")
        ELSE [outcome |-> "returns", message |-> "",
              nin |-> IF vector.kind # "none" THEN 1 ELSE np4,
              nplots |-> IF vector.kind # "none" THEN nvec ELSE np4,
              styles |-> IF styles.kind # "none" THEN listify(styles)
                         ELSE <<>>,
              labels |-> IF labels.kind # "none" THEN listify(labels)
                         ELSE <<>>]

NoScope ==
    [made |-> FALSE, nin |-> NoneInt, vector |-> NoneVector,
     styles |-> NoneArg, labels |-> NoneArg,
     result |-> [outcome |-> "", message |-> "", nin |-> 0, nplots |-> 0,
                 styles |-> <<>>, labels |-> <<>>]]

----------------------------------------------------------------------------
(* Construction.                                                           *)

(* The selection flag after initUI(), from the flag sel of a new item.     *)
BlockInitUI(sel) == sel

SocketInitUI_flagsOnly(sel) == sel

SocketInitUI(sel) == TRUE

(* The event loop dispatches one more event.                               *)
Dispatch ==
    /\ events < MaxEvents
    /\ events' = events + 1

NoMode == [mode |-> "", style |-> checkMode("")]

NoEvent ==
    [op |-> "none", who |-> "none", raw |-> <<0, 0>>, snapped |-> <<0, 0>>,
     updated |-> {}, value |-> "", before |-> NoMode, outcome |-> "returns",
     printed |-> "", measured |-> 0, title_len |-> 0, button |-> "",
     was_selected |-> FALSE, toggled |-> FALSE,
     region |-> [x2 |-> 0, y2 |-> 0, w2 |-> 0, h2 |-> 0]]

Init ==
    /\ sceneRect = FirstSceneRect
    /\ width = [e \in Entities |-> 0]
    /\ default_width = [e \in Entities |-> 0]
    /\ default_height = [e \in Entities |-> 0]
    /\ block_height = [e \in Entities |-> 0]
    /\ height = [e \in Entities |-> 0]
    /\ inputs = [e \in Entities |-> <<>>]
    /\ outputs = [e \in Entities |-> <<>>]
    /\ pos = [e \in Entities |-> <<0, 0>>]
    /\ selected = [e \in Entities |-> FALSE]
    /\ draw_title = [e \in Entities |-> FALSE]
    /\ title_pos = [e \in Entities |-> [x2 |-> 0, y |-> 0]]
    /\ wireEnd = [e \in Entities |-> <<0, 0>>]
    /\ blocks = {}
    /\ front = "none"
    /\ scope = NoScope
    /\ mode = [e \in Entities |-> ""]
    /\ style = [e \in Entities |-> checkMode("")]
    /\ event = NoEvent
    /\ events = 0

(* QGraphicsScene.setSceneRect(rect): the work area is resized.            *)
SetSceneRect(rect) ==
    /\ Dispatch
    /\ UNCHANGED default_width
    /\ UNCHANGED scope
    /\ UNCHANGED front
    /\ UNCHANGED modeVars
    /\ rect # sceneRect
    /\ sceneRect' = rect
    /\ event' = [NoEvent EXCEPT !.op = "scene"]
    /\ UNCHANGED <<width, default_height, block_height, height, inputs,
                   outputs, pos, selected, draw_title, title_pos, wireEnd,
                   blocks>>

(* GraphicsBlock.__init__ for a Block of width w and height h in a scene   *)
(* of mode m, which the scene then holds.                                  *)
CreateBlock(b, w, h, m) ==
    /\ Dispatch
    /\ UNCHANGED scope
    /\ UNCHANGED front
    /\ mode' = [mode EXCEPT ![b] = m]
    /\ style' = [style EXCEPT ![b] = checkMode(m)]
    /\ b \in Blocks \ blocks
    /\ blocks' = blocks \cup {b}
    /\ width' = [width EXCEPT ![b] = w]
    /\ height' = [height EXCEPT ![b] = h]
    /\ block_height' = [block_height EXCEPT ![b] = h]
    /\ default_width' = [default_width EXCEPT ![b] = w]
    /\ default_height' = [default_height EXCEPT ![b] = h]
    /\ draw_title' = [draw_title EXCEPT ![b] = TRUE]
    /\ selected' = [selected EXCEPT ![b] = BlockInitUI(FALSE)]
    /\ wireEnd' = [wireEnd EXCEPT ![b] = updateConnectedEdges(b, pos[b])]
    /\ event' = [NoEvent EXCEPT !.op = "create", !.who = b]
    /\ UNCHANGED <<sceneRect, inputs, outputs, pos, title_pos>>

(* GraphicsSocketBlock.__init__ for a Connector of size w, with its one    *)
(* input and one output socket.                                            *)
CreateConnector(k, w) ==
    /\ Dispatch
    /\ UNCHANGED default_width
    /\ UNCHANGED scope
    /\ UNCHANGED front
    /\ UNCHANGED modeVars
    /\ k \in Connectors \ blocks
    /\ blocks' = blocks \cup {k}
    /\ width' = [width EXCEPT ![k] = w]
    /\ height' = [height EXCEPT ![k] = w]
    /\ block_height' = [block_height EXCEPT ![k] = w]
    /\ draw_title' = [draw_title EXCEPT ![k] = TRUE]
    /\ inputs' = [inputs EXCEPT ![k] = <<0>>]
    /\ outputs' = [outputs EXCEPT ![k] = <<0>>]
    /\ selected' = [selected EXCEPT ![k] = SocketInitUI(FALSE)]
    /\ wireEnd' = [wireEnd EXCEPT ![k] = updateConnectedEdges(k, pos[k])]
    /\ event' = [NoEvent EXCEPT !.op = "create", !.who = k]
    /\ UNCHANGED <<sceneRect, default_height, pos, title_pos>>

----------------------------------------------------------------------------
(* Changes of a Block's socket lists, made by the Block class.             *)

AddInputSocket(b, y) ==
    /\ Dispatch
    /\ UNCHANGED default_width
    /\ UNCHANGED scope
    /\ UNCHANGED front
    /\ UNCHANGED modeVars
    /\ b \in Blocks \cap blocks
    /\ Len(inputs[b]) < MaxSockets
    /\ y > LastSocketY(inputs[b])
    /\ inputs' = [inputs EXCEPT ![b] = Append(@, y)]
    /\ event' = [NoEvent EXCEPT !.op = "sockets", !.who = b]
    /\ UNCHANGED <<sceneRect, width, default_height, block_height, height,
                   outputs, pos, selected, draw_title, title_pos, wireEnd,
                   blocks>>

AddOutputSocket(b, y) ==
    /\ Dispatch
    /\ UNCHANGED default_width
    /\ UNCHANGED scope
    /\ UNCHANGED front
    /\ UNCHANGED modeVars
    /\ b \in Blocks \cap blocks
    /\ Len(outputs[b]) < MaxSockets
    /\ y > LastSocketY(outputs[b])
    /\ outputs' = [outputs EXCEPT ![b] = Append(@, y)]
    /\ event' = [NoEvent EXCEPT !.op = "sockets", !.who = b]
    /\ UNCHANGED <<sceneRect, width, default_height, block_height, height,
                   inputs, pos, selected, draw_title, title_pos, wireEnd,
                   blocks>>

RemoveInputSocket(b) ==
    /\ Dispatch
    /\ UNCHANGED default_width
    /\ UNCHANGED scope
    /\ UNCHANGED front
    /\ UNCHANGED modeVars
    /\ b \in Blocks \cap blocks
    /\ inputs[b] # <<>>
    /\ inputs' = [inputs EXCEPT ![b] = SubSeq(@, 1, Len(@) - 1)]
    /\ event' = [NoEvent EXCEPT !.op = "sockets", !.who = b]
    /\ UNCHANGED <<sceneRect, width, default_height, block_height, height,
                   outputs, pos, selected, draw_title, title_pos, wireEnd,
                   blocks>>

RemoveOutputSocket(b) ==
    /\ Dispatch
    /\ UNCHANGED default_width
    /\ UNCHANGED scope
    /\ UNCHANGED front
    /\ UNCHANGED modeVars
    /\ b \in Blocks \cap blocks
    /\ outputs[b] # <<>>
    /\ outputs' = [outputs EXCEPT ![b] = SubSeq(@, 1, Len(@) - 1)]
    /\ event' = [NoEvent EXCEPT !.op = "sockets", !.who = b]
    /\ UNCHANGED <<sceneRect, width, default_height, block_height, height,
                   inputs, pos, selected, draw_title, title_pos, wireEnd,
                   blocks>>

(* paint() with a resize that also takes the new height as the default.   *)
Paint_raisesDefault(b, measured) ==
    /\ Dispatch
    /\ UNCHANGED default_width
    /\ UNCHANGED scope
    /\ UNCHANGED front
    /\ UNCHANGED modeVars
    /\ b \in Blocks \cap blocks
    /\ LET h == checkBlockHeight(b)
       IN  /\ block_height' = [block_height EXCEPT ![b] = h]
           /\ height' = [height EXCEPT ![b] = h]
           /\ default_height' = [default_height EXCEPT ![b] = h]
           /\ IF draw_title[b]
              THEN /\ draw_title' = [draw_title EXCEPT ![b] = FALSE]
                   /\ title_pos' =
                          [title_pos EXCEPT ![b] = setTitlePos(b, h, measured)]
              ELSE UNCHANGED <<draw_title, title_pos>>
    /\ event' = IF draw_title[b]
                 THEN [NoEvent EXCEPT !.op = "paint", !.who = b,
                                      !.measured = measured,
                                      !.title_len = titleLength(measured)]
                 ELSE [NoEvent EXCEPT !.op = "paint", !.who = b]
    /\ UNCHANGED <<sceneRect, width, inputs, outputs, pos,
                   selected, wireEnd, blocks>>

----------------------------------------------------------------------------
(* GraphicsBlock.paint: checkBlockHeight(), then setTitle() when the title *)
(* is still to be drawn.  measured is the width QFontMetrics reports.      *)
Paint(b, measured) ==
    /\ Dispatch
    /\ UNCHANGED default_width
    /\ UNCHANGED scope
    /\ UNCHANGED front
    /\ UNCHANGED modeVars
    /\ b \in Blocks \cap blocks
    /\ LET h == checkBlockHeight(b)
       IN  /\ block_height' = [block_height EXCEPT ![b] = h]
           /\ height' = [height EXCEPT ![b] = h]
           /\ IF draw_title[b]
              THEN /\ draw_title' = [draw_title EXCEPT ![b] = FALSE]
                   /\ title_pos' =
                          [title_pos EXCEPT ![b] = setTitlePos(b, h, measured)]
              ELSE UNCHANGED <<draw_title, title_pos>>
    /\ event' = IF draw_title[b]
                 THEN [NoEvent EXCEPT !.op = "paint", !.who = b,
                                      !.measured = measured,
                                      !.title_len = titleLength(measured)]
                 ELSE [NoEvent EXCEPT !.op = "paint", !.who = b]
    /\ UNCHANGED <<sceneRect, width, default_height, inputs, outputs, pos,
                   selected, wireEnd, blocks>>

----------------------------------------------------------------------------
(* GraphicsBlock.updateMode(value), called on the graphics item of Block b *)
UpdateMode(b, value) ==
    /\ Dispatch
    /\ UNCHANGED default_width
    /\ UNCHANGED scope
    /\ UNCHANGED front
    /\ b \in Blocks \cap blocks
    /\ LET r == updateMode(mode[b], style[b], value)
       IN  /\ mode' = [mode EXCEPT ![b] = r.mode]
           /\ style' = [style EXCEPT ![b] = r.style]
           /\ event' = [NoEvent EXCEPT !.op = "mode", !.who = b,
                                       !.value = value,
                                       !.before = [mode |-> mode[b],
                                                   style |-> style[b]],
                                       !.outcome = r.outcome,
                                       !.printed = r.printed]
    /\ UNCHANGED <<sceneRect, width, default_height, block_height, height,
                   inputs, outputs, pos, selected, draw_title, title_pos,
                   wireEnd, blocks>>

----------------------------------------------------------------------------
(* mousePressEvent of either graphics class, for a press that the scene    *)
(* resolved to entity e through its boundingRect.                          *)
MousePress(e, button, ctrl) ==
    /\ Dispatch
    /\ UNCHANGED default_width
    /\ UNCHANGED scope
    /\ e \in blocks
    /\ LET r == IF IsBlock(e)
                THEN BlockMousePress(selected[e], button)
                ELSE SocketMousePress(selected[e], button)
       IN  /\ front' = IF r.focus THEN e ELSE front
           /\ selected' = IF r.super
                          THEN superMousePress(e, button, ctrl)
                          ELSE selected
           /\ event' = [NoEvent EXCEPT !.op = "press", !.who = e,
                                       !.button = button,
                                       !.was_selected = selected[e],
                                       !.toggled = r.toggle,
                                       !.region = boundingRect(e)]
    /\ UNCHANGED modeVars
    /\ UNCHANGED <<sceneRect, width, default_height, block_height, height,
                   inputs, outputs, pos, draw_title, title_pos, wireEnd,
                   blocks>>

----------------------------------------------------------------------------
(* QGraphicsItem.setSelected(v), by which the scene selects and deselects  *)
(* an item.                                                                *)
SetSelected(e, v) ==
    /\ Dispatch
    /\ UNCHANGED default_width
    /\ UNCHANGED scope
    /\ UNCHANGED front
    /\ UNCHANGED modeVars
    /\ e \in blocks
    /\ selected[e] # v
    /\ selected' = [selected EXCEPT ![e] = v]
    /\ event' = [NoEvent EXCEPT !.op = "select", !.who = e]
    /\ UNCHANGED <<sceneRect, width, default_height, block_height, height,
                   inputs, outputs, pos, draw_title, title_pos, wireEnd,
                   blocks>>

----------------------------------------------------------------------------
(* mouseMoveEvent of either graphics class.  raw is the position           *)
(* super().mouseMoveEvent(event) leaves the item at: a new one when the    *)
(* drag moves it, its own when it does not.  The handler then snaps and    *)
(* clamps the item and resynchronises the selected entities, each from     *)
(* the position it has; what Qt's base handler does to the other selected  *)
(* items is Qt's and is left out.                                          *)
MouseMove(e, raw) ==
    /\ Dispatch
    /\ UNCHANGED default_width
    /\ UNCHANGED scope
    /\ UNCHANGED front
    /\ UNCHANGED modeVars
    /\ e \in blocks
    /\ LET moved == Move(e, raw)
           upd == Updated(e)
       IN  /\ pos' = [pos EXCEPT ![e] = moved.final]
           /\ wireEnd' = resync(e, moved, upd)
           /\ event' = [NoEvent EXCEPT !.op = "move", !.who = e,
                                       !.raw = raw,
                                       !.snapped = moved.snapped,
                                       !.updated = upd]
    /\ UNCHANGED <<sceneRect, width, default_height, block_height, height,
                   inputs, outputs, selected, draw_title, title_pos, blocks>>

----------------------------------------------------------------------------
Next ==
    \/ \E rect \in SceneRects : SetSceneRect(rect)
    \/ \E b \in Blocks, w \in BlockWidths, h \in DefaultHeights,
             m \in SceneModes :
           CreateBlock(b, w, h, m)
    \/ \E b \in Blocks, value \in ModeValues : UpdateMode(b, value)
    \/ \E k \in Connectors, w \in ConnectorSizes : CreateConnector(k, w)
    \/ \E b \in Blocks, y \in SocketYs : AddInputSocket(b, y)
    \/ \E b \in Blocks, y \in SocketYs : AddOutputSocket(b, y)
    \/ \E b \in Blocks : RemoveInputSocket(b)
    \/ \E b \in Blocks : RemoveOutputSocket(b)
    \/ \E b \in Blocks, m \in TitlePixelLens : Paint(b, m)
    \/ \E e \in Entities, v \in BOOLEAN : SetSelected(e, v)
    \/ \E e \in Entities, button \in Buttons, ctrl \in BOOLEAN :
           MousePress(e, button, ctrl)
    \/ \E e \in Entities : \E raw \in RawTargets \cup {pos[e]} :
           MouseMove(e, raw)

Spec == Init /\ [][Next]_vars

----------------------------------------------------------------------------
(* Scope(nin=..., vector=..., styles=..., labels=...): the constructor     *)
(* runs on its arguments; no graphics item is touched.                     *)
CreateScope(nin, vector, styles, labels) ==
    /\ scope' = [made |-> TRUE, nin |-> nin, vector |-> vector,
                 styles |-> styles, labels |-> labels,
                 result |-> Scope_init(nin, vector, styles, labels)]
    /\ UNCHANGED <<sceneRect, width, default_height, block_height, height,
                   inputs, outputs, pos, selected, draw_title, title_pos,
                   wireEnd, blocks, front, mode, style, event, events,
                   default_width>>

ScopeNext ==
    \E nin \in NinArgs, vector \in VectorArgs, styles \in StylesArgs,
       labels \in LabelsArgs :
        CreateScope(nin, vector, styles, labels)

ScopeSpec == Init /\ [][ScopeNext]_vars

----------------------------------------------------------------------------
(* Properties.                                                             *)

(* C1: after checkBlockHeight on a Block the height is at least the        *)
(* default height and equals max(default height, max(last input offset,    *)
(* last output offset) + spacer), an empty side counting as offset 0 and   *)
(* spacer being padding + corner radius + title band = 40; with default    *)
(* 80 and last input offset 200 the height is 240.                         *)
C1_ResizeHeight ==
    event.op = "paint" =>
        LET b == event.who
            lastIn == IF Len(inputs[b]) = 0 THEN 0
                      ELSE inputs[b][Len(inputs[b])]
            lastOut == IF Len(outputs[b]) = 0 THEN 0
                       ELSE outputs[b][Len(outputs[b])]
            spacer == 5 + 10 + 25
            required == (IF lastIn >= lastOut THEN lastIn ELSE lastOut)
                            + spacer
        IN  /\ height[b] >= default_height[b]
            /\ height[b] = IF required >= default_height[b]
                           THEN required ELSE default_height[b]
            /\ block_height[b] = height[b]
            /\ (default_height[b] = 80 /\ lastIn = 200 /\ lastOut <= 200)
                   => height[b] = 240

(* A Block of default height 80 whose last input socket lies at 200 has    *)
(* been resized to 240.                                                    *)
C1_Witness ==
    /\ event.op = "paint"
    /\ default_height[event.who] = 80
    /\ inputs[event.who] # <<>>
    /\ inputs[event.who][Len(inputs[event.who])] = 200
    /\ height[event.who] = 240

(* C2: checkBlockHeight is idempotent: on the state a first call left,     *)
(* with the socket lists and the default height as they were, a second     *)
(* call gives the Block and its graphics item the heights they have.       *)
C2_ResizeIdempotent ==
    event.op = "paint" =>
        /\ checkBlockHeight(event.who) = height[event.who]
        /\ checkBlockHeight(event.who) = block_height[event.who]

(* A resize has grown a Block beyond its default height.                   *)
C2_Witness ==
    /\ event.op = "paint"
    /\ height[event.who] > default_height[event.who]
    /\ block_height[event.who] = height[event.who]

(* The limits of the padded work area for entity e: the left and top      *)
(* limits, and the right and bottom limits for its width, its height and   *)
(* the title band below it.                                                *)
LimitLeft == sceneRect.x + 20
LimitTop == sceneRect.y + 20
LimitRight(e) == sceneRect.x + sceneRect.width - width[e] - 20
LimitBottom(e) ==
    sceneRect.y + sceneRect.height - height[e]
        - (IF e \in Blocks THEN 25 ELSE 0) - 20

(* C3: the position a Block or Connector has after a move is a multiple    *)
(* of the grid size 20 in x and in y, also when a border check has set it. *)
C3_OnGrid ==
    event.op = "move" =>
        /\ pos[event.who][1] % 20 = 0
        /\ pos[event.who][2] % 20 = 0

(* C4, as claimed: after a move the position lies between the left and     *)
(* the right limit and between the top and the bottom limit, for every     *)
(* scene rectangle.                                                        *)
C4_WithinLimits ==
    event.op = "move" =>
        /\ LimitLeft <= pos[event.who][1]
        /\ pos[event.who][1] <= LimitRight(event.who)
        /\ LimitTop <= pos[event.who][2]
        /\ pos[event.who][2] <= LimitBottom(event.who)

(* C4, amended: after a move the position never exceeds the right and the  *)
(* bottom limit; on an axis where the scene leaves room for the entity     *)
(* (the left limit is not above the right one, the top limit not above     *)
(* the bottom one) it is not below the left or top limit either, and on    *)
(* an axis where the scene is too small it is the right or bottom limit.   *)
C4_WithinLimitsWhenRoom ==
    event.op = "move" =>
        LET e == event.who
        IN  /\ pos[e][1] <= LimitRight(e)
            /\ pos[e][2] <= LimitBottom(e)
            /\ LimitLeft <= LimitRight(e) => LimitLeft <= pos[e][1]
            /\ LimitTop <= LimitBottom(e) => LimitTop <= pos[e][2]
            /\ LimitLeft > LimitRight(e) => pos[e][1] = LimitRight(e)
            /\ LimitTop > LimitBottom(e) => pos[e][2] = LimitBottom(e)

(* A Block dragged past the right and the top border of a scene with room  *)
(* for it stands on the right and the top limit.                           *)
C4_Witness ==
    /\ event.op = "move"
    /\ event.who \in Blocks
    /\ LimitLeft <= LimitRight(event.who)
    /\ LimitTop <= LimitBottom(event.who)
    /\ event.snapped[1] > LimitRight(event.who)
    /\ pos[event.who] = <<LimitRight(event.who), LimitTop>>

(* C5: a move is idempotent: the snap and clamp of the position a move     *)
(* left, in the same scene and for the same size, give that position.      *)
C5_MoveIdempotent ==
    event.op = "move" => Move(event.who, pos[event.who]).final = pos[event.who]

(* A coordinate limited to the interval from lo to hi, hi winning.         *)
Limited(v, lo, hi) ==
    IF (IF v < lo THEN lo ELSE v) > hi THEN hi
    ELSE (IF v < lo THEN lo ELSE v)

(* C6: a move snaps to the grid first and clamps the snapped position:     *)
(* the snapped coordinate is a multiple of 20 at most 10 from the raw      *)
(* one, and the final coordinate is the snapped one limited to the padded  *)
(* work area; in the scene (0,0,1000,600) a Block 100 wide and 80 high     *)
(* dragged to (997,3) snaps to (1000,0) and ends at (880,20).              *)
C6_SnapThenClamp ==
    event.op = "move" =>
        LET e == event.who
        IN  /\ \A i \in {1, 2} :
                  /\ event.snapped[i] % 20 = 0
                  /\ event.snapped[i] - event.raw[i] <= 10
                  /\ event.raw[i] - event.snapped[i] <= 10
            /\ pos[e][1] = Limited(event.snapped[1], LimitLeft, LimitRight(e))
            /\ pos[e][2] = Limited(event.snapped[2], LimitTop, LimitBottom(e))
            /\ ( /\ sceneRect = [x |-> 0, y |-> 0,
                                 width |-> 1000, height |-> 600]
                 /\ e \in Blocks /\ width[e] = 100 /\ height[e] = 80
                 /\ event.raw = <<997, 3>> )
                   => (event.snapped = <<1000, 0>> /\ pos[e] = <<880, 20>>)

(* The Block of the scenario has been dragged to (997,3) and stands at     *)
(* (880,20).                                                               *)
C6_Witness ==
    /\ event.op = "move"
    /\ event.who \in Blocks
    /\ sceneRect = [x |-> 0, y |-> 0, width |-> 1000, height |-> 600]
    /\ width[event.who] = 100 /\ height[event.who] = 80
    /\ event.raw = <<997, 3>>
    /\ event.snapped = <<1000, 0>>
    /\ pos[event.who] = <<880, 20>>

(* C7: when the moved entity is selected, updateConnectedEdges is called   *)
(* for exactly the selected entities of the scene, and the wire of each    *)
(* of them ends at its port; no unselected entity is resynchronised.       *)
C7_SelectedResynced ==
    (event.op = "move" /\ selected[event.who]) =>
        /\ \A x \in blocks : (x \in event.updated) <=> selected[x]
        /\ event.updated \subseteq blocks
        /\ \A x \in event.updated :
               wireEnd[x] = <<pos[x][1] + PortOffset(x)[1],
                              pos[x][2] + PortOffset(x)[2]>>

(* b1 moved while b1 and one more entity are selected and a third is not:  *)
(* the two are resynchronised, the third is not.                           *)
C7_Witness ==
    /\ event.op = "move"
    /\ event.who = "b1"
    /\ blocks = Entities
    /\ selected["b1"]
    /\ \E c \in Entities \ {"b1"} : \E d \in Entities \ {"b1", c} :
           /\ selected[c] /\ ~selected[d]
           /\ event.updated = {"b1", c}

(* C8: every move resynchronises the moved entity itself, whatever its     *)
(* selection flag.                                                         *)
C8_MoverResynced ==
    event.op = "move" => event.who \in event.updated

(* C9: once an event is processed, every wire endpoint equals its port's   *)
(* relative offset plus the current position of the owning entity.         *)
C9_EndpointsAtPorts ==
    \A x \in blocks :
        wireEnd[x] = <<pos[x][1] + PortOffset(x)[1],
                       pos[x][2] + PortOffset(x)[2]>>

(* C10: right after construction a Connector is selected and an ordinary   *)
(* Block is not.                                                           *)
C10_SelectedAtCreation ==
    event.op = "create" =>
        /\ event.who \in Connectors => selected[event.who]
        /\ event.who \in Blocks => ~selected[event.who]

(* A Connector has just been constructed, selected, beside a Block that    *)
(* was constructed unselected.                                             *)
C10_Witness ==
    /\ event.op = "create"
    /\ event.who \in Connectors
    /\ selected[event.who]
    /\ \E b \in Blocks \cap blocks : ~selected[b]

(* C11: updateMode with a value outside Light, Dark and Off leaves the     *)
(* Block's stored mode and its pen, brush and title colour as they were    *)
(* before the call.                                                        *)
C11_InvalidModeChangesNothing ==
    (event.op = "mode" /\ event.value \notin {"Light", "Dark", "Off"}) =>
        /\ mode[event.who] = event.before.mode
        /\ style[event.who] = event.before.style

(* A Block in Dark mode has been given the mode "Purple" and is still in   *)
(* Dark mode with the Dark colours.                                        *)
C11_Witness ==
    /\ event.op = "mode"
    /\ event.value = "Purple"
    /\ mode[event.who] = "Dark"
    /\ style[event.who].brush_background = "white"
    /\ style[event.who].title_color = "white"

(* C12, as claimed: updateMode with a value outside Light, Dark and Off    *)
(* ends in an error raised to the caller.                                  *)
C12_InvalidModeRaises ==
    (event.op = "mode" /\ event.value \notin {"Light", "Dark", "Off"}) =>
        event.outcome = "raises"

(* C12, amended: updateMode with a value outside Light, Dark and Off       *)
(* prints "Block mode not supported." and returns normally; a supported    *)
(* value prints nothing.                                                   *)
C12_InvalidModeLogged ==
    event.op = "mode" =>
        /\ event.outcome = "returns"
        /\ event.value \notin {"Light", "Dark", "Off"}
               <=> event.printed = "Block mode not supported."

(* The mode "Purple" has been given to a Block: the call printed its       *)
(* message and returned.                                                   *)
C12_Witness ==
    /\ event.op = "mode"
    /\ event.value = "Purple"
    /\ event.printed = "Block mode not supported."
    /\ event.outcome = "returns"

(* C13: the title width used for centring is the smallest even number     *)
(* not below the measured width, and for an even Block width the          *)
(* horizontal title offset (width - padding - title width) / 2 that        *)
(* setTitle computes is an integer.                                        *)
C13_TitleOffsetIntegral ==
    (event.op = "paint" /\ event.title_len > 0) =>
        LET b == event.who
        IN  /\ event.title_len % 2 = 0
            /\ event.title_len >= event.measured
            /\ event.title_len - event.measured <= 1
            /\ title_pos[b].x2 = width[b] - 5 - event.title_len
            /\ width[b] % 2 = 0 => title_pos[b].x2 % 2 = 0


(* C14: the interaction region of a Connector of width W with internal     *)
(* padding P = 2.5 starts at 1 - W - P on both axes and is 3W + P wide     *)
(* and 2W + P high; that of a Block is the rectangle from the origin       *)
(* with the Block's width and its current height.  Lengths are in half     *)
(* pixels.                                                                 *)
C14_Region(e) ==
    IF e \in Connectors
    THEN [x2 |-> 2 * (1 - width[e]) - 5, y2 |-> 2 * (1 - width[e]) - 5,
          w2 |-> 6 * width[e] + 5, h2 |-> 4 * width[e] + 5]
    ELSE [x2 |-> 0, y2 |-> 0, w2 |-> 2 * width[e], h2 |-> 2 * height[e]]

C14_InteractionRegion ==
    /\ \A e \in blocks : boundingRect(e) = C14_Region(e)
    /\ event.op = "press" => event.region = C14_Region(event.who)

C14_Witness ==
    /\ event.op = "press"
    /\ event.who \in Connectors
    /\ event.region = [x2 |-> -43, y2 |-> -43, w2 |-> 125, h2 |-> 85]
    /\ \E b \in Blocks \cap blocks :
          /\ height[b] = 240
          /\ boundingRect(b) = [x2 |-> 0, y2 |-> 0, w2 |-> 200, h2 |-> 480]

(* C15: a press on a Block brings that Block to the front, and the         *)
(* parameter window toggle is requested exactly when the button is the     *)
(* right one and the Block was selected when the press arrived.            *)
C15_PressFrontAndToggle ==
    (event.op = "press" /\ event.who \in Blocks) =>
        /\ front = event.who
        /\ event.toggled <=> (event.button = "right" /\ event.was_selected)

C15_Witness ==
    /\ event.op = "press"
    /\ event.who \in Blocks
    /\ event.button = "right"
    /\ event.was_selected
    /\ event.toggled
    /\ front = event.who


(* C16: a move is one step that snaps, then clamps, then resynchronises:   *)
(* once it is handled the mover stands at the clamped image of the         *)
(* snapped image of the raw target, and the wire of every resynchronised   *)
(* entity ends at the port of the position the entity then has, which for  *)
(* the mover is the clamped one.                                           *)
C16_MoveInOrder ==
    event.op = "move" =>
        LET b == event.who
            gx == event.snapped[1]
            gy == event.snapped[2]
        IN  /\ gx % 20 = 0 /\ gy % 20 = 0
            /\ 2 * gx - 2 * event.raw[1] \in -20 .. 20
            /\ 2 * gy - 2 * event.raw[2] \in -20 .. 20
            /\ pos[b] = <<Limited(gx, LimitLeft, LimitRight(b)),
                          Limited(gy, LimitTop, LimitBottom(b))>>
            /\ \A x \in event.updated :
                   /\ wireEnd[x][1] = pos[x][1]
                   /\ wireEnd[x][2] = pos[x][2] + socket_spacer(x)
                   /\ x = b => wireEnd[x][1] = Limited(gx, LimitLeft,
                                                       LimitRight(b))

(* A selected Block dragged to (997, 3): snapped to (1000, 0), clamped to  *)
(* (880, 20), and its wire follows the clamped position.                   *)
C16_Witness ==
    /\ event.op = "move"
    /\ event.who \in Blocks
    /\ event.who \in event.updated
    /\ event.raw = <<997, 3>>
    /\ event.snapped = <<1000, 0>>
    /\ pos[event.who] = <<880, 20>>
    /\ wireEnd[event.who][1] = 880


(* C17: with styles given, Scope takes the number of lines from the        *)
(* length of the styles list, a single style string counting as a list of  *)
(* one: Scope(styles='k--') has nplots = 1 and nin = 1, and                *)
(* Scope(nin=1, styles='k--') is accepted; with nothing given nplots and   *)
(* nin are 1.                                                              *)
C17_StylesListLength ==
    scope.made =>
        LET given(a) == a.kind # "none"
            lines == IF scope.styles.kind = "str" THEN 1
                     ELSE Len(scope.styles.list)
            only_styles == /\ given(scope.styles) /\ ~given(scope.labels)
                           /\ ~given(scope.vector)
        IN  /\ (only_styles /\ ~scope.nin.some) =>
                   /\ scope.result.outcome = "returns"
                   /\ scope.result.nplots = lines
                   /\ scope.result.nin = lines
            /\ (only_styles /\ scope.nin.some /\ scope.nin.val = lines) =>
                   /\ scope.result.outcome = "returns"
                   /\ scope.result.nplots = lines
            /\ (~given(scope.styles) /\ ~given(scope.labels)
                   /\ ~given(scope.vector) /\ ~scope.nin.some) =>
                   /\ scope.result.outcome = "returns"
                   /\ scope.result.nplots = 1
                   /\ scope.result.nin = 1


(* C18: the move of a Connector is the move of a Block computed with a     *)
(* title band of zero on the same raw target, scene rectangle, width and   *)
(* height, so the lowest place it is put at is                             *)
(* rect.y + rect.height - height - 20.                                     *)
C18_ConnectorMoveIsBlockMove ==
    (event.op = "move" /\ event.who \in Connectors) =>
        LET k == event.who
            asBlock == BlockMove(event.raw, sceneRect, width[k], height[k], 0)
            lowest == sceneRect.y + sceneRect.height - height[k] - 20
        IN  /\ event.snapped = asBlock.snapped
            /\ pos[k] = asBlock.final
            /\ event.snapped[2] > lowest => pos[k][2] = lowest

(* A Connector dragged below the work area is put at the bottom limit.     *)
C18_Witness ==
    /\ event.op = "move"
    /\ event.who \in Connectors
    /\ sceneRect = FirstSceneRect
    /\ event.snapped[2] = 600
    /\ pos[event.who][2] = 600 - height[event.who] - 20
    /\ height[event.who] > 0


(* C19: the grid snap takes each coordinate v to a multiple of 20 at most  *)
(* 10 away from v, and a v exactly halfway between two multiples goes to   *)
(* the multiple 20 * k with k even, which is not always the larger one.    *)
C19_SnapHalfToEven ==
    event.op = "move" =>
        \A i \in 1 .. 2 :
            LET v == event.raw[i]
                g == event.snapped[i]
            IN  /\ g % 20 = 0
                /\ g - v \in -10 .. 10
                /\ v % 20 = 10 => (g \div 20) % 2 = 0

(* The raw target (30, 50) is halfway in both coordinates: 30 goes up to   *)
(* 40 and 50 goes down to 40.                                              *)
C19_Witness ==
    /\ event.op = "move"
    /\ event.raw = <<30, 50>>
    /\ event.snapped = <<40, 40>>


(* C20: the default width and default height of a constructed Block keep   *)
(* the values construction gave them through every step, and a paint,      *)
(* which is where the height is recomputed, leaves the width, position,    *)
(* selection flag and colour mode of every entity as they were.            *)
C20_ResizeOnlyHeight ==
    [][/\ \A b \in Blocks \cap blocks :
              /\ default_width'[b] = default_width[b]
              /\ default_height'[b] = default_height[b]
       /\ event'.op = "paint" =>
              /\ width' = width
              /\ pos' = pos
              /\ selected' = selected
              /\ mode' = mode]_vars

(* A selected Block has just been painted and has grown to 240 over its    *)
(* default height, which with the default width is as constructed.         *)
C20_Witness ==
    /\ event.op = "paint"
    /\ selected[event.who]
    /\ height[event.who] = 240
    /\ default_height[event.who] \in DefaultHeights
    /\ default_width[event.who] = width[event.who]
    /\ width[event.who] \in BlockWidths


(* C21: after every paint of a Block the title stands at the Block's       *)
(* current height plus the padding 5, also when sockets added or removed   *)
(* after the first paint have changed the height, and the flag that asks   *)
(* for the title to be drawn is down.                                      *)
C21_TitleBelowBlock ==
    event.op = "paint" =>
        /\ title_pos[event.who].y = height[event.who] + 5
        /\ ~draw_title[event.who]


(* C22: the border checks run left, top, right, bottom, each on the        *)
(* position the one before left: the right check sees the x the left       *)
(* check produced and the bottom check the y the top check produced.  In   *)
(* a scene narrower than width + 40 the final x is                         *)
(* rect.x + rect.width - width - 20, below the left limit, and in a scene  *)
(* lower than height + title band + 40 the final y is the bottom limit,    *)
(* below the top limit.                                                    *)
C22_RightAndBottomWin ==
    event.op = "move" =>
        LET e == event.who
            band == IF e \in Blocks THEN 25 ELSE 0
            afterLeft == IF event.snapped[1] < sceneRect.x + 20
                         THEN sceneRect.x + 20 ELSE event.snapped[1]
            afterTop == IF event.snapped[2] < sceneRect.y + 20
                        THEN sceneRect.y + 20 ELSE event.snapped[2]
            rightmost == sceneRect.x + sceneRect.width - width[e] - 20
            lowest == sceneRect.y + sceneRect.height - height[e] - band - 20
        IN  /\ pos[e][1] = IF afterLeft > rightmost THEN rightmost
                           ELSE afterLeft
            /\ pos[e][2] = IF afterTop > lowest THEN lowest ELSE afterTop
            /\ sceneRect.width < width[e] + 40 =>
                   /\ pos[e][1] = rightmost
                   /\ pos[e][1] < sceneRect.x + 20
            /\ sceneRect.height < height[e] + band + 40 =>
                   /\ pos[e][2] = lowest
                   /\ pos[e][2] < sceneRect.y + 20

(* A Block 100 wide and 80 high moved in the scene (0, 0, 120, 100), which *)
(* is too small for it on both axes, ends at (0, -25).                     *)
C22_Witness ==
    /\ event.op = "move"
    /\ event.who \in Blocks
    /\ sceneRect = [x |-> 0, y |-> 0, width |-> 120, height |-> 100]
    /\ width[event.who] = 100
    /\ height[event.who] = 80
    /\ pos[event.who] = <<0, -25>>

====
